---- MODULE Spec2Model ----
(***************************************************************************)
(* Model of fire/helptext.py: the help screen (HelpText) and the usage     *)
(* text (UsageText, UsageTextForFunction, UsageTextForObject) rendered for *)
(* a component, a trace and a verbose flag.                                *)
(*                                                                         *)
(* A text is a sequence of characters (one-character strings).  The three  *)
(* terminal escape sequences of the styling module are single elements.    *)
(* An optional value is <<>> (None) or <<v>>.                              *)
(***************************************************************************)
EXTENDS Integers, Sequences, FiniteSets, TLC

VARIABLES component, trace, verbose, helpOut, usageOut

vars == <<component, trace, verbose, helpOut, usageOut>>

None == <<>>
Some(v) == <<v>>
IsNone(o) == o = <<>>
Get(o) == o[1]

(***************************** bounds **************************************)
MaxParams == 3
MaxDocArgs == 2
MaxMembers == 2
MaxSeqLen == 12

(************************* program constants *******************************)
\* helptext.py:303, the length from which the index list is compressed
IndexListLimit == 10
\* helptext.py:323, the indent of a help section's body
SectionIndent == 4
\* helptext.py:344, the indent of a positional argument's description
ArgItemIndent == 4
\* helptext.py:368 and 372, the indent of a flag's or member's description
ItemIndent == 2
\* helptext.py:432, the indent of a choices list
ChoicesIndent == 1
\* helptext.py:577, the layout of an availability line
HeaderIndent == 2
ItemsIndent == 25
LineLength == 80

(****************************** literals ***********************************)
T_NAME ==
  <<"N", "A", "M", "E">>
T_SYNOPSIS ==
  <<"S", "Y", "N", "O", "P", "S", "I", "S">>
T_DESCRIPTION ==
  <<"D", "E", "S", "C", "R", "I", "P", "T", "I", "O", "N">>
T_ARGUMENTS ==
  <<"A", "R", "G", "U", "M", "E", "N", "T", "S">>
T_POSITIONAL_ARGUMENTS ==
  <<"P", "O", "S", "I", "T", "I", "O", "N", "A", "L", " ", "A", "R", "G", "U", "M", "E", "N", "T", "S">>
T_FLAGS ==
  <<"F", "L", "A", "G", "S">>
T_NOTES ==
  <<"N", "O", "T", "E", "S">>
T_GROUPS ==
  <<"G", "R", "O", "U", "P", "S">>
T_COMMANDS ==
  <<"C", "O", "M", "M", "A", "N", "D", "S">>
T_VALUES ==
  <<"V", "A", "L", "U", "E", "S">>
T_INDEXES ==
  <<"I", "N", "D", "E", "X", "E", "S">>
K_GROUP ==
  <<"G", "R", "O", "U", "P">>
K_COMMAND ==
  <<"C", "O", "M", "M", "A", "N", "D">>
K_VALUE ==
  <<"V", "A", "L", "U", "E">>
K_INDEX ==
  <<"I", "N", "D", "E", "X">>
k_group ==
  <<"g", "r", "o", "u", "p">>
k_command ==
  <<"c", "o", "m", "m", "a", "n", "d">>
k_value ==
  <<"v", "a", "l", "u", "e">>
k_index ==
  <<"i", "n", "d", "e", "x">>
NotesText ==
  <<"Y", "o", "u", " ", "c", "a", "n", " ", "a", "l", "s", "o", " ", "u", "s", "e", " ", "f", "l", "a", "g", "s", " ", "s", "y", "n", "t", "a", "x", " ", "f", "o", "r", " ", "P", "O", "S", "I", "T", "I", "O", "N", "A", "L", " ", "A", "R", "G", "U", "M", "E", "N", "T", "S">>
IsOneOf ==
  <<" ", "i", "s", " ", "o", "n", "e", " ", "o", "f", " ", "t", "h", "e", " ", "f", "o", "l", "l", "o", "w", "i", "n", "g", ":">>
UsagePrefix ==
  <<"U", "s", "a", "g", "e", ":", " ">>
FlagsToken ==
  <<"<", "f", "l", "a", "g", "s", ">">>
AvailableFlags ==
  <<"A", "v", "a", "i", "l", "a", "b", "l", "e", " ", "f", "l", "a", "g", "s", ":", " ">>
DetailLine ==
  <<"F", "o", "r", " ", "d", "e", "t", "a", "i", "l", "e", "d", " ", "i", "n", "f", "o", "r", "m", "a", "t", "i", "o", "n", " ", "o", "n", " ", "t", "h", "i", "s", " ", "c", "o", "m", "m", "a", "n", "d", ",", " ", "r", "u", "n", ":">>
HelpFlag ==
  <<" ", "-", "-", "h", "e", "l", "p">>
HyphenHyphen ==
  <<" ", "-", "-">>
AvailableGroups ==
  <<"a", "v", "a", "i", "l", "a", "b", "l", "e", " ", "g", "r", "o", "u", "p", "s", ":">>
AvailableCommands ==
  <<"a", "v", "a", "i", "l", "a", "b", "l", "e", " ", "c", "o", "m", "m", "a", "n", "d", "s", ":">>
AvailableValues ==
  <<"a", "v", "a", "i", "l", "a", "b", "l", "e", " ", "v", "a", "l", "u", "e", "s", ":">>
AvailableIndexes ==
  <<"a", "v", "a", "i", "l", "a", "b", "l", "e", " ", "i", "n", "d", "e", "x", "e", "s", ":">>
PipeSep ==
  <<" ", "|", " ">>
DashSep ==
  <<" ", "-", " ">>
CommaSep ==
  <<",", " ">>
DotDot ==
  <<".", ".">>
Digits ==
  <<"0", "1", "2", "3", "4", "5", "6", "7", "8", "9">>
LowerCase ==
  <<"a", "b", "c", "d", "e", "f", "g", "h", "i", "j", "k", "l", "m", "n", "o", "p", "q", "r", "s", "t", "u", "v", "w", "x", "y", "z">>
UpperCase ==
  <<"A", "B", "C", "D", "E", "F", "G", "H", "I", "J", "K", "L", "M", "N", "O", "P", "Q", "R", "S", "T", "U", "V", "W", "X", "Y", "Z">>
NL == "\n"
SP == " "

(***************************************************************************)
(* Strings: the operations of Python's str the code uses.                  *)
(***************************************************************************)
RECURSIVE Join(_, _)
\* sep.join(items)
Join(items, sep) ==
  IF Len(items) = 0 THEN <<>>
  ELSE IF Len(items) = 1 THEN items[1]
  ELSE items[1] \o sep \o Join(Tail(items), sep)

RECURSIVE Split(_, _)
\* text.split(ch): the pieces between the occurrences of ch, at least one
Split(text, ch) ==
  IF \A i \in 1..Len(text) : text[i] # ch THEN <<text>>
  ELSE LET k == CHOOSE i \in 1..Len(text) :
                  text[i] = ch /\ \A j \in 1..(i - 1) : text[j] # ch
       IN <<SubSeq(text, 1, k - 1)>> \o Split(SubSeq(text, k + 1, Len(text)), ch)

\* ' ' * n
Spaces(n) == [i \in 1..n |-> SP]

\* c.upper() for one character
UpperChar(c) ==
  IF \E i \in 1..Len(LowerCase) : LowerCase[i] = c
  THEN UpperCase[CHOOSE i \in 1..Len(LowerCase) : LowerCase[i] = c]
  ELSE c

\* text.upper()
Upper(text) == [i \in 1..Len(text) |-> UpperChar(text[i])]

RECURSIVE Str(_)
\* str(n) for an integer n >= 0
Str(n) == IF n < 10 THEN <<Digits[n + 1]>> ELSE Str(n \div 10) \o <<Digits[(n % 10) + 1]>>

RECURSIVE RStrip(_, _)
\* text.rstrip(ch)
RStrip(text, ch) ==
  IF Len(text) > 0 /\ text[Len(text)] = ch
  THEN RStrip(SubSeq(text, 1, Len(text) - 1), ch)
  ELSE text

(***************************************************************************)
(* fire/formatting.py (not among the sources): emphasis, indentation and   *)
(* the greedy wrapped join, as section 6 of the specification gives them.  *)
(***************************************************************************)
ESC_BOLD == "ESC[1m"
ESC_UNDERLINE == "ESC[4m"
ESC_RESET == "ESC[0m"

Bold(text) == <<ESC_BOLD>> \o text \o <<ESC_RESET>>
Underline(text) == <<ESC_UNDERLINE>> \o text \o <<ESC_RESET>>
BoldUnderline(text) == Bold(Underline(text))

\* Indent(text, spaces): every non-empty line is prefixed
IndentLine(line, spaces) == IF Len(line) > 0 THEN Spaces(spaces) \o line ELSE line
Indent(text, spaces) ==
  LET lines == Split(text, NL)
  IN Join([i \in 1..Len(lines) |-> IndentLine(lines[i], spaces)], <<NL>>)

RECURSIVE WrappedJoinFrom(_, _, _, _, _)
\* the loop of WrappedJoin from item index onwards, current_line and lines so far
WrappedJoinFrom(items, index, current_line, lines, width) ==
  IF index > Len(items) THEN Append(lines, current_line)
  ELSE LET item == items[index]
           is_final_item == index = Len(items)
       IN IF is_final_item
          THEN IF Len(current_line) + Len(item) <= width
               THEN WrappedJoinFrom(items, index + 1, current_line \o item, lines, width)
               ELSE WrappedJoinFrom(items, index + 1, item,
                                    Append(lines, RStrip(current_line, SP)), width)
          ELSE IF Len(current_line) + Len(item) + Len(PipeSep) <= width
               THEN WrappedJoinFrom(items, index + 1, current_line \o item \o PipeSep,
                                    lines, width)
               ELSE WrappedJoinFrom(items, index + 1, item \o PipeSep,
                                    Append(lines, RStrip(current_line, SP)), width)

\* WrappedJoin(items, separator=' | ', width): the lines of the joined items
WrappedJoin(items, width) == WrappedJoinFrom(items, 1, <<>>, <<>>, width)

(***************************************************************************)
(* The collaborators of helptext.py that are not among the sources, as     *)
(* sections 3 and 6 of the specification give them.                        *)
(*                                                                         *)
(* A component is a record                                                 *)
(*   nature          "routine", "class", "object", "dict", "list", "tuple" *)
(*   length          len(component) of a dict, list or tuple               *)
(*   members         what completion._Members enumerates with verbose set: *)
(*                   [name, private, kinds, summary], kinds the set of the *)
(*                   value_types predicates the member satisfies, summary  *)
(*                   the summary of the member's own docstring             *)
(*   spec            inspectutils.GetFullArgSpec(component)                *)
(*   metadata        decorators.GetMetadata(component)                     *)
(*   docstring_info  inspectutils.Info(component)['docstring_info']        *)
(*   init_args       the args of the docstring of the component's class's  *)
(*                   __init__                                              *)
(***************************************************************************)
\* inspect.isroutine(component), inspect.isclass(component)
IsRoutine(c) == c.nature = "routine"
IsClass(c) == c.nature = "class"

\* isinstance(component, (list, tuple))
IsListOrTuple(c) == c.nature \in {"list", "tuple"}

\* completion._Members(component, verbose): private members only when verbose
RECURSIVE VisibleFrom(_, _, _)
VisibleFrom(members, i, includePrivate) ==
  IF i > Len(members) THEN <<>>
  ELSE (IF includePrivate \/ ~members[i].private THEN <<members[i]>> ELSE <<>>)
       \o VisibleFrom(members, i + 1, includePrivate)
Members(c, includePrivate) == VisibleFrom(c.members, 1, includePrivate)

\* value_types.IsGroup, IsCommand, IsValue
IsGroup(member) == "group" \in member.kinds
IsCommand(member) == "command" \in member.kinds
IsValue(member) == "value" \in member.kinds

\* trace.GetCommand(include_separators): the path segments, space-joined, with
\* the separator after a segment only when include_separators
RECURSIVE CommandArgs(_, _, _)
CommandArgs(elements, i, include_separators) ==
  IF i > Len(elements) THEN <<>>
  ELSE <<elements[i].arg>>
       \o (IF elements[i].separator /\ include_separators THEN << <<"-">> >> ELSE <<>>)
       \o CommandArgs(elements, i + 1, include_separators)
GetCommand(t, include_separators) ==
  Join(CommandArgs(t.elements, 1, include_separators), <<SP>>)

\* trace.NeedsSeparatingHyphenHyphen()
NeedsSeparatingHyphenHyphen(t) == t.needs_separating_hyphen_hyphen

\* Python truth of an optional text: None and '' are false
Truthy(o) == ~IsNone(o) /\ Len(Get(o)) > 0

(***************************************************************************)
(* helptext.py                                                             *)
(***************************************************************************)
Section(title, body) == [title |-> title, body |-> body]

\* _GetCurrentCommand
GetCurrentCommand(tr, include_separators) ==
  IF ~IsNone(tr) THEN GetCommand(Get(tr), include_separators) ELSE <<>>

\* _GetSummary, _GetDescription
GetSummary(info) ==
  IF Truthy(info.docstring_info.summary) THEN info.docstring_info.summary ELSE None
GetDescription(info) ==
  IF Truthy(info.docstring_info.description) THEN info.docstring_info.description ELSE None

\* _NameSection
NameSection(info, tr, verb) ==
  LET current_command == GetCurrentCommand(tr, verb)
      summary == GetSummary(info)
      text == IF Truthy(summary) THEN current_command \o DashSep \o Get(summary)
              ELSE current_command
  IN Some(Section(T_NAME, text))

\* mutant: the DESCRIPTION section is returned even without a text
DescriptionSection_Always(info) ==
  LET summary == GetSummary(info)
      description == GetDescription(info)
  IN Some(Section(T_DESCRIPTION,
                  IF Truthy(description) THEN Get(description)
                  ELSE IF Truthy(summary) THEN Get(summary) ELSE <<>>))

\* _DescriptionSection: None when there is neither description nor summary
DescriptionSection(info) ==
  LET summary == GetSummary(info)
      description == GetDescription(info)
      text == IF Truthy(description) THEN description
              ELSE IF Truthy(summary) THEN summary ELSE None
  IN IF Truthy(text) THEN Some(Section(T_DESCRIPTION, Get(text))) ELSE None

\* the signature split of _GetArgsAndFlagsString (lines 235-237)
SynopsisSplit(spec) ==
  [args_with_no_defaults |-> SubSeq(spec.args, 1, Len(spec.args) - Len(spec.defaults)),
   flags |-> SubSeq(spec.args, Len(spec.args) - Len(spec.defaults) + 1, Len(spec.args))
             \o spec.kwonlyargs]

\* mutant: the keyword-only parameters come before the default-bearing ones
SectionsSplit_KwonlyFirst(spec) ==
  [args_with_no_defaults |-> SubSeq(spec.args, 1, Len(spec.args) - Len(spec.defaults)),
   flags |-> spec.kwonlyargs
             \o SubSeq(spec.args, Len(spec.args) - Len(spec.defaults) + 1, Len(spec.args))]

\* the signature split of _ArgsAndFlagsSections (lines 147-149)
SectionsSplit(spec) ==
  [args_with_no_defaults |-> SubSeq(spec.args, 1, Len(spec.args) - Len(spec.defaults)),
   flags |-> SubSeq(spec.args, Len(spec.args) - Len(spec.defaults) + 1, Len(spec.args))
             \o spec.kwonlyargs]

\* the signature split of UsageTextForFunction (lines 471-478)
UsageSplit(spec) ==
  LET args == spec.args
      num_defaults == Len(spec.defaults)
  IN [args_with_no_defaults |-> SubSeq(args, 1, Len(args) - num_defaults),
      flags |-> SubSeq(args, Len(args) - num_defaults + 1, Len(args)) \o spec.kwonlyargs]

\* mutant: a required positional is shown as positional whatever the metadata
SynopsisArgString_Positional(arg, accepts_positional_args) == Underline(Upper(arg))

\* one required positional of the synopsis (lines 244-251)
SynopsisArgString(arg, accepts_positional_args) ==
  IF accepts_positional_args THEN Underline(Upper(arg))
  ELSE <<"-", "-">> \o arg \o <<"=">> \o Underline(Upper(arg))

\* one flag of the synopsis (lines 254-260)
SynopsisFlagString(flag) ==
  <<"[", "-", "-">> \o Underline(flag) \o <<"=">> \o Upper(flag) \o <<"]">>

\* _GetArgsAndFlagsString
GetArgsAndFlagsString(spec, metadata) ==
  LET split == SynopsisSplit(spec)
      accepts_positional_args == metadata.accepts_positional_args
      arg_strings == [i \in 1..Len(split.args_with_no_defaults) |->
                        SynopsisArgString(split.args_with_no_defaults[i],
                                          accepts_positional_args)]
      flag_strings == [i \in 1..Len(split.flags) |-> SynopsisFlagString(split.flags[i])]
  IN Join(arg_strings \o flag_strings, <<SP>>)

RECURSIVE ClassifyFrom_Exclusive(_, _, _)
\* mutant: the three tests are an if / elif / elif chain
ClassifyFrom_Exclusive(members, i, acc) ==
  IF i > Len(members) THEN acc
  ELSE LET member == members[i]
       IN ClassifyFrom_Exclusive(members, i + 1,
            IF IsGroup(member) THEN [acc EXCEPT !.groups = Append(@, member)]
            ELSE IF IsCommand(member) THEN [acc EXCEPT !.commands = Append(@, member)]
            ELSE IF IsValue(member) THEN [acc EXCEPT !.values = Append(@, member)]
            ELSE acc)

RECURSIVE ClassifyFrom(_, _, _)
\* the loop of _GetActionsGroupedByKind over the members (lines 290-297)
ClassifyFrom(members, i, acc) ==
  IF i > Len(members) THEN acc
  ELSE LET member == members[i]
           groups == IF IsGroup(member) THEN Append(acc.groups, member) ELSE acc.groups
           commands == IF IsCommand(member) THEN Append(acc.commands, member)
                       ELSE acc.commands
           values == IF IsValue(member) THEN Append(acc.values, member) ELSE acc.values
       IN ClassifyFrom(members, i + 1,
                       [groups |-> groups, commands |-> commands, values |-> values])

\* mutant: the index list is compressed only above the limit
Indexes_OffByOne(c) ==
  IF IsListOrTuple(c) /\ c.length > 0
  THEN IF c.length <= IndexListLimit
       THEN Some(Join([x \in 1..c.length |-> Str(x - 1)], CommaSep))
       ELSE Some(<<"0">> \o DotDot \o Str(c.length - 1))
  ELSE None

\* the index descriptor of _GetActionsGroupedByKind (lines 299-306)
Indexes(c) ==
  IF IsListOrTuple(c) /\ c.length > 0
  THEN IF c.length < IndexListLimit
       THEN Some(Join([x \in 1..c.length |-> Str(x - 1)], CommaSep))
       ELSE Some(<<"0">> \o DotDot \o Str(c.length - 1))
  ELSE None

\* _GetActionsGroupedByKind
GetActionsGroupedByKind(c, verb) ==
  LET byKind == ClassifyFrom(Members(c, verb), 1,
                             [groups |-> <<>>, commands |-> <<>>, values |-> <<>>])
  IN [groups |-> byKind.groups, commands |-> byKind.commands,
      values |-> byKind.values, indexes |-> Indexes(c)]

\* one kind of _GetPossibleActionsString
PossibleAction(present, kind) == IF present THEN <<kind>> ELSE <<>>

\* _GetPossibleActionsString
GetPossibleActionsString(actions) ==
  LET possible_actions ==
        PossibleAction(Len(actions.groups) > 0, K_GROUP)
        \o PossibleAction(Len(actions.commands) > 0, K_COMMAND)
        \o PossibleAction(Len(actions.values) > 0, K_VALUE)
        \o PossibleAction(Truthy(actions.indexes), K_INDEX)
  IN Join([i \in 1..Len(possible_actions) |-> Underline(possible_actions[i])], PipeSep)

\* _SynopsisSection
SynopsisSection(c, actions, spec, metadata, tr) ==
  LET current_command == GetCurrentCommand(tr, TRUE)
      text == IF IsRoutine(c) \/ IsClass(c)
              THEN current_command \o <<SP>> \o GetArgsAndFlagsString(spec, metadata)
              ELSE current_command \o <<SP>> \o GetPossibleActionsString(actions)
  IN Some(Section(T_SYNOPSIS, text))

\* _CreateItem
CreateItem(name, description, indent) == name \o <<NL>> \o Indent(description, indent)

RECURSIVE ArgDescriptionFrom(_, _, _, _)
\* the loop of _CreateArgItem: every entry is looked at (lines 338-340)
ArgDescriptionFrom(doc_args, i, arg, description) ==
  IF i > Len(doc_args) THEN description
  ELSE ArgDescriptionFrom(doc_args, i + 1, arg,
                          IF doc_args[i].name = arg THEN Some(doc_args[i].description)
                          ELSE description)

RECURSIVE FlagDescriptionFrom_NoBreak(_, _, _)
\* mutant: the loop does not break, the last match is kept
FlagDescriptionFrom_NoBreak(doc_args, i, flag) ==
  IF i > Len(doc_args) THEN None
  ELSE LET later == FlagDescriptionFrom_NoBreak(doc_args, i + 1, flag)
       IN IF ~IsNone(later) THEN later
          ELSE IF doc_args[i].name = flag THEN Some(doc_args[i].description)
          ELSE None

RECURSIVE FlagDescriptionFrom(_, _, _)
\* the loop of _CreateFlagItem: it breaks at the first match (lines 361-364)
FlagDescriptionFrom(doc_args, i, flag) ==
  IF i > Len(doc_args) THEN None
  ELSE IF doc_args[i].name = flag THEN Some(doc_args[i].description)
  ELSE FlagDescriptionFrom(doc_args, i + 1, flag)

\* _CreateArgItem
CreateArgItem(arg, docstring_info) ==
  LET description == ArgDescriptionFrom(docstring_info.args, 1, arg, None)
  IN IF Truthy(description)
     THEN CreateItem(BoldUnderline(Upper(arg)), Get(description), ArgItemIndent)
     ELSE BoldUnderline(Upper(arg))

\* _CreateFlagItem
CreateFlagItem(flag, docstring_info) ==
  LET description == FlagDescriptionFrom(docstring_info.args, 1, flag)
      name == <<"-", "-">> \o Underline(flag)
  IN IF Truthy(description) THEN CreateItem(name, Get(description), ItemIndent)
     ELSE name

\* mutant: the title does not look at the metadata
ArgumentsTitle_Fixed(accepts_positional_args) == T_POSITIONAL_ARGUMENTS

\* the title of the arguments section (line 164)
ArgumentsTitle(accepts_positional_args) ==
  IF accepts_positional_args THEN T_POSITIONAL_ARGUMENTS ELSE T_ARGUMENTS

\* _ArgsAndFlagsSections: the sections, the notes and the split it used
ArgsAndFlagsSections(info, spec, metadata) ==
  LET split == SectionsSplit(spec)
      accepts_positional_args == metadata.accepts_positional_args
      docstring_info == info.docstring_info
      arg_items == [i \in 1..Len(split.args_with_no_defaults) |->
                      CreateArgItem(split.args_with_no_defaults[i], docstring_info)]
      flag_items == [i \in 1..Len(split.flags) |->
                       CreateFlagItem(split.flags[i], docstring_info)]
      arguments == IF Len(arg_items) > 0
                   THEN <<Some(Section(ArgumentsTitle(accepts_positional_args),
                                       RStrip(Join(arg_items, <<NL>>), NL)))>>
                   ELSE <<>>
      notes == IF Len(arg_items) > 0 /\ accepts_positional_args
               THEN <<Some(Section(T_NOTES, NotesText))>>
               ELSE <<>>
      flags == IF Len(flag_items) > 0
               THEN <<Some(Section(T_FLAGS, Join(flag_items, <<NL>>)))>>
               ELSE <<>>
  IN [args_and_flags_sections |-> arguments \o flags, notes_sections |-> notes]

\* _NewChoicesSection
NewChoicesSection(name, choices) ==
  CreateItem(Bold(Underline(name)) \o IsOneOf,
             <<NL>> \o Join(choices, <<NL, NL>>), ChoicesIndent)

\* an item of the GROUPS or COMMANDS section: the name, with the summary of the
\* member's docstring when it has one (lines 381-389, 396-404)
MemberItem(member) ==
  IF Truthy(member.summary) THEN CreateItem(member.name, Get(member.summary), ItemIndent)
  ELSE member.name

\* _GroupUsageDetailsSection
GroupUsageDetailsSection(groups) ==
  Some(Section(T_GROUPS, NewChoicesSection(K_GROUP,
                    [i \in 1..Len(groups) |-> MemberItem(groups[i])])))

\* _CommandUsageDetailsSection
CommandUsageDetailsSection(commands) ==
  Some(Section(T_COMMANDS, NewChoicesSection(K_COMMAND,
                    [i \in 1..Len(commands) |-> MemberItem(commands[i])])))

RECURSIVE ValueItemFrom(_, _, _, _)
\* the loop of _ValuesUsageDetailsSection over the args of the __init__ docstring:
\* every entry is looked at (lines 418-420)
ValueItemFrom(init_args, i, value_name, value_item) ==
  IF i > Len(init_args) THEN value_item
  ELSE ValueItemFrom(init_args, i + 1, value_name,
                     IF init_args[i].name = value_name
                     THEN Some(CreateItem(value_name, init_args[i].description, ItemIndent))
                     ELSE value_item)

\* _ValuesUsageDetailsSection
ValuesUsageDetailsSection(c, values) ==
  LET value_item(v) == LET found == ValueItemFrom(c.init_args, 1, v.name, None)
                       IN IF IsNone(found) THEN v.name ELSE Get(found)
  IN Some(Section(T_VALUES,
                  NewChoicesSection(K_VALUE, [i \in 1..Len(values) |-> value_item(values[i])])))

\* _UsageDetailsSections
UsageDetailsSections(c, actions) ==
  (IF Len(actions.groups) > 0 THEN <<GroupUsageDetailsSection(actions.groups)>> ELSE <<>>)
  \o (IF Len(actions.commands) > 0 THEN <<CommandUsageDetailsSection(actions.commands)>>
      ELSE <<>>)
  \o (IF Len(actions.values) > 0 THEN <<ValuesUsageDetailsSection(c, actions.values)>>
      ELSE <<>>)
  \o (IF Truthy(actions.indexes)
      THEN <<Some(Section(T_INDEXES, NewChoicesSection(K_INDEX, <<Get(actions.indexes)>>)))>>
      ELSE <<>>)

\* _CreateOutputSection
CreateOutputSection(name, content) == Bold(name) \o <<NL>> \o Indent(content, SectionIndent)

RECURSIVE NotNoneFrom(_, _)
\* the sections that are not None (line 91)
NotNoneFrom(sections, i) ==
  IF i > Len(sections) THEN <<>>
  ELSE (IF IsNone(sections[i]) THEN <<>> ELSE <<Get(sections[i])>>)
       \o NotNoneFrom(sections, i + 1)

\* the argument, flag and notes sections of HelpText: those of
\* _ArgsAndFlagsSections for a routine or class, none for an object (lines 70-79)
HelpArgsAndFlags(callable, info, spec, metadata) ==
  IF callable THEN ArgsAndFlagsSections(info, spec, metadata)
  ELSE [args_and_flags_sections |-> <<>>, notes_sections |-> <<>>]

\* mutant: the usage details sections are built for routines and classes too
HelpUsageDetails_Always(callable, c, actions) == UsageDetailsSections(c, actions)

\* the usage details sections of HelpText: none for a routine or class, those
\* of _UsageDetailsSections for an object (lines 74, 80-81)
HelpUsageDetails(callable, c, actions) ==
  IF callable THEN <<>> ELSE UsageDetailsSections(c, actions)

\* HelpText: the sections it joins and the text, with the actions grouped by
\* kind and the signature splits it computed on the way
HelpText(c, tr, verb) ==
  LET info == [docstring_info |-> c.docstring_info]
      actions_grouped_by_kind == GetActionsGroupedByKind(c, verb)
      spec == c.spec
      metadata == c.metadata
      name_section == NameSection(info, tr, verb)
      synopsis_section == SynopsisSection(c, actions_grouped_by_kind, spec, metadata, tr)
      description_section == DescriptionSection(info)
      callable == IsRoutine(c) \/ IsClass(c)
      aaf == HelpArgsAndFlags(callable, info, spec, metadata)
      args_and_flags_sections == aaf.args_and_flags_sections
      notes_sections == aaf.notes_sections
      usage_details_sections == HelpUsageDetails(callable, c, actions_grouped_by_kind)
      sections == NotNoneFrom(<<name_section, synopsis_section, description_section>>
                              \o args_and_flags_sections
                              \o usage_details_sections
                              \o notes_sections, 1)
  IN [sections |-> sections,
      text |-> Join([i \in 1..Len(sections) |->
                       CreateOutputSection(sections[i].title, sections[i].body)],
                    <<NL, NL>>),
      actions |-> Some(actions_grouped_by_kind),
      synopsis_split |-> IF callable THEN Some(SynopsisSplit(spec)) ELSE None,
      sections_split |-> IF callable THEN Some(SectionsSplit(spec)) ELSE None]

\* _CreateAvailabilityLine
CreateAvailabilityLine(header, item_names) ==
  LET items_width == LineLength - ItemsIndent
      items_text == Join(WrappedJoin(item_names, items_width), <<NL>>)
      indented_items_text == Indent(items_text, ItemsIndent)
      indented_header == Indent(header, HeaderIndent)
  IN indented_header
     \o SubSeq(indented_items_text, Len(indented_header) + 1, Len(indented_items_text))
     \o <<NL>>

\* one required positional of the usage line (lines 483-487)
UsageArgString(arg, accepts_positional_args) ==
  IF ~accepts_positional_args THEN <<"-", "-">> \o arg \o <<"=">> \o Upper(arg)
  ELSE Upper(arg)

\* mutant: every flag gets its bracketed token on the usage line
UsageItems_TokenPerFlag(split, accepts_positional_args) ==
  [i \in 1..Len(split.args_with_no_defaults) |->
     UsageArgString(split.args_with_no_defaults[i], accepts_positional_args)]
  \o [j \in 1..Len(split.flags) |->
        <<"[", "-", "-">> \o split.flags[j] \o <<"=">> \o Upper(split.flags[j]) \o <<"]">>]

\* the items of the usage line (lines 483-490)
UsageItems(split, accepts_positional_args) ==
  [i \in 1..Len(split.args_with_no_defaults) |->
     UsageArgString(split.args_with_no_defaults[i], accepts_positional_args)]
  \o (IF Len(split.flags) > 0 THEN <<FlagsToken>> ELSE <<>>)

\* the availability lines of UsageTextForFunction (lines 489-495)
FlagAvailabilityLines(flags) ==
  IF Len(flags) > 0
  THEN <<NL>> \o AvailableFlags
       \o Join([i \in 1..Len(flags) |-> <<"-", "-">> \o flags[i]], PipeSep) \o <<NL>>
  ELSE <<>>

\* the command of the usage text (lines 460-468, 524-530)
UsageCommand(tr) == IF ~IsNone(tr) THEN GetCommand(Get(tr), TRUE) ELSE <<>>

\* a separator that ignores what the trace reports
UsageHyphenHyphen_Always(tr) == HyphenHyphen

\* the separator of the help hint (lines 460-465, 498)
UsageHyphenHyphen(tr) ==
  IF ~IsNone(tr) /\ NeedsSeparatingHyphenHyphen(Get(tr)) THEN HyphenHyphen ELSE <<>>

\* UsageTextForFunction; verbose is deleted on entry
UsageTextForFunction(c, tr, verb) ==
  LET command == UsageCommand(tr)
      split == UsageSplit(c.spec)
      accepts_positional_args == c.metadata.accepts_positional_args
      args_and_flags == Join(UsageItems(split, accepts_positional_args), <<SP>>)
      availability_lines == FlagAvailabilityLines(split.flags)
      hyphen_hyphen == UsageHyphenHyphen(tr)
  IN [form |-> "function",
      text |-> UsagePrefix \o command \o <<SP>> \o args_and_flags \o <<NL>>
               \o availability_lines \o <<NL>>
               \o DetailLine \o <<NL>>
               \o <<SP, SP>> \o command \o hyphen_hyphen \o HelpFlag,
      actions |-> None,
      usage_split |-> Some(split)]

\* the names of the items of an availability line (line 579)
ItemNames(items) == [i \in 1..Len(items) |-> items[i].name]

\* one kind of UsageTextForObject: its name and its availability line
UsageKind(present, kind, header, item_names) ==
  IF present THEN <<[action |-> kind, line |-> CreateAvailabilityLine(header, item_names)]>>
  ELSE <<>>

\* mutant: the values are looked at before the commands
UsageKinds_ValuesFirst(actions) ==
  UsageKind(Len(actions.groups) > 0, k_group, AvailableGroups, ItemNames(actions.groups))
  \o UsageKind(Len(actions.values) > 0, k_value, AvailableValues,
               ItemNames(actions.values))
  \o UsageKind(Len(actions.commands) > 0, k_command, AvailableCommands,
               ItemNames(actions.commands))
  \o UsageKind(Truthy(actions.indexes), k_index, AvailableIndexes,
               IF Truthy(actions.indexes) THEN <<Get(actions.indexes)>> ELSE <<>>)

\* the kinds UsageTextForObject lists, in its order (lines 535-560)
UsageKinds(actions) ==
  UsageKind(Len(actions.groups) > 0, k_group, AvailableGroups, ItemNames(actions.groups))
  \o UsageKind(Len(actions.commands) > 0, k_command, AvailableCommands,
               ItemNames(actions.commands))
  \o UsageKind(Len(actions.values) > 0, k_value, AvailableValues,
               ItemNames(actions.values))
  \o UsageKind(Truthy(actions.indexes), k_index, AvailableIndexes,
               IF Truthy(actions.indexes) THEN <<Get(actions.indexes)>> ELSE <<>>)

\* the possible actions of the usage line (lines 562-566)
PossibleActionsString(possible_actions) ==
  IF Len(possible_actions) > 0
  THEN <<SP, "<">> \o Join(possible_actions, <<"|">>) \o <<">">>
  ELSE <<>>

\* UsageTextForObject
UsageTextForObject(c, tr, verb) ==
  LET command == UsageCommand(tr)
      actions_grouped_by_kind == GetActionsGroupedByKind(c, verb)
      kinds == UsageKinds(actions_grouped_by_kind)
      possible_actions == [i \in 1..Len(kinds) |-> kinds[i].action]
      availability_lines == [i \in 1..Len(kinds) |-> kinds[i].line]
  IN [form |-> "object",
      text |-> UsagePrefix \o command \o PossibleActionsString(possible_actions) \o <<NL>>
               \o Join(availability_lines, <<>>) \o <<NL>>
               \o DetailLine \o <<NL>>
               \o <<SP, SP>> \o command \o HelpFlag,
      actions |-> Some(actions_grouped_by_kind),
      usage_split |-> None]

\* UsageText
UsageText(c, tr, verb) ==
  IF IsRoutine(c) \/ IsClass(c) THEN UsageTextForFunction(c, tr, verb)
  ELSE UsageTextForObject(c, tr, verb)

(***************************************************************************)
(* The inputs: components, traces and verbose flags.                       *)
(***************************************************************************)
\* parameter names
ParamNames == << <<"a", "b">>, <<"c", "_", "d">>, <<"e", "1">>, <<"F", "g">>, <<"h">> >>
\* a name no parameter has
OtherName == <<"z", "z">>

\* the sequences of at most n different elements of the sequence names
RECURSIVE DistinctSeqs(_, _)
DistinctSeqs(names, n) ==
  IF n = 0 THEN {<<>>}
  ELSE LET shorter == DistinctSeqs(names, n - 1)
       IN shorter \cup {Append(s, names[i]) : s \in shorter, i \in 1..Len(names)}

NoRepeat(s) == \A i, j \in 1..Len(s) : s[i] = s[j] => i = j

\* the argument specifications over the parameter lists params: the first j
\* parameters are positional, the last d of them have defaults, the rest are
\* keyword-only
ArgSpecsOver(params) ==
  UNION {{[args |-> SubSeq(p, 1, j), defaults |-> [k \in 1..d |-> 0],
           kwonlyargs |-> SubSeq(p, j + 1, Len(p))] : d \in 0..j} :
         <<p, j>> \in {pj \in params \X (0..Len(ParamNames)) : pj[2] <= Len(pj[1])}}

ParamLists(names) == {p \in DistinctSeqs(names, Len(names)) : NoRepeat(p)}
\* the signatures of at most MaxParams parameters
ArgSpecs == ArgSpecsOver(ParamLists(SubSeq(ParamNames, 1, MaxParams)))
\* the signatures of at most two parameters
SmallArgSpecs == ArgSpecsOver(ParamLists(SubSeq(ParamNames, 1, 2)))
NoArgs == [args |-> <<>>, defaults |-> <<>>, kwonlyargs |-> <<>>]
OneArg == [args |-> <<ParamNames[1]>>, defaults |-> <<>>, kwonlyargs |-> <<>>]

\* docstrings
SummaryText == <<"S", "u", "m", ".">>
DescriptionText == <<"D", "e", "s", "c", ".">>
NoDocstring == [summary |-> None, description |-> None, args |-> <<>>]
Docstrings ==
  {[summary |-> s, description |-> d, args |-> <<>>] :
     s \in {None, Some(SummaryText)}, d \in {None, Some(DescriptionText)}}

\* the entries of a docstring's argument list: a parameter or another name, with
\* an empty description or one of two
DocEntries ==
  {[name |-> n, description |-> d] :
     n \in {ParamNames[1], OtherName}, d \in {<<>>, <<"x">>, <<"y", "y">>}}

RECURSIVE SeqsUpTo(_, _)
\* the sequences of at most n elements of the set S
SeqsUpTo(S, n) ==
  IF n = 0 THEN {<<>>}
  ELSE LET shorter == SeqsUpTo(S, n - 1)
       IN shorter \cup {Append(s, e) : s \in shorter, e \in S}

DocArgLists == SeqsUpTo(DocEntries, MaxDocArgs)

\* members: the i-th member of a component has the i-th name; the first two
\* names do not fit one availability line together
LongName(first, ch) == <<first>> \o [i \in 1..26 |-> ch]
MemberNames == <<LongName("g", "o"), LongName("_", "h"), <<"i", "t">>, <<"_", "k">> >>
Kinds == {"group", "command", "value"}
MemberSummaries(i) == IF i = 1 THEN {None, Some(SummaryText)}
                      ELSE IF i % 2 = 0 THEN {None} ELSE {Some(SummaryText)}
MembersAt(i) ==
  {[name |-> MemberNames[i], private |-> MemberNames[i][1] = "_", kinds |-> k,
    summary |-> s] : k \in SUBSET Kinds, s \in MemberSummaries(i)}

RECURSIVE MemberLists(_)
\* the member lists of at most n members
MemberLists(n) ==
  IF n = 0 THEN {<<>>}
  ELSE LET shorter == MemberLists(n - 1)
       IN shorter \cup {Append(s, m) : s \in {t \in shorter : Len(t) = n - 1},
                                       m \in MembersAt(n)}

OneCommand ==
  [name |-> MemberNames[1], private |-> FALSE, kinds |-> {"command"}, summary |-> None]

InitArgLists == {<<>>, <<[name |-> MemberNames[1], description |-> <<"x">>]>>}

\* traces
Element(arg, separator) == [arg |-> arg, separator |-> separator]
Paths == {<<>>,
          <<Element(<<"a", "p", "p">>, FALSE)>>,
          <<Element(<<"a", "p", "p">>, TRUE), Element(<<"g", "o">>, FALSE)>>}
Traces ==
  {None} \cup {Some([elements |-> p, needs_separating_hyphen_hyphen |-> n]) :
                 p \in Paths, n \in BOOLEAN}

AppTrace ==
  Some([elements |-> <<Element(<<"a", "p", "p">>, FALSE)>>,
        needs_separating_hyphen_hyphen |-> FALSE])

Component(nature, length, members, spec, accepts, docstring_info, init_args) ==
  [nature |-> nature, length |-> length, members |-> members, spec |-> spec,
   metadata |-> [accepts_positional_args |-> accepts],
   docstring_info |-> docstring_info, init_args |-> init_args]

\* the inputs of one run
Chosen(c, tr, verb) == component = c /\ trace = tr /\ verbose = verb

\* routines, and classes with a member, of every signature
SignatureInputs ==
  \E nm \in {<<"routine", <<>> >>, <<"class", <<OneCommand>> >>}, spec \in ArgSpecs,
     accepts \in BOOLEAN, tr \in Traces, verb \in BOOLEAN :
    Chosen(Component(nm[1], 0, nm[2], spec, accepts, NoDocstring, <<>>), tr, verb)

\* routines whose docstring documents arguments
DocumentedInputs ==
  \E spec \in SmallArgSpecs, accepts \in BOOLEAN, doc_args \in DocArgLists :
    Chosen(Component("routine", 0, <<>>, spec, accepts,
                     [summary |-> None, description |-> None, args |-> doc_args], <<>>),
           None, FALSE)

\* routines and objects with and without a summary and a description
DescribedInputs ==
  \E nature \in {"routine", "object"}, spec \in {NoArgs, OneArg}, doc \in Docstrings,
     tr \in Traces, verb \in BOOLEAN :
    Chosen(Component(nature, 0, <<OneCommand>>, spec, TRUE, doc, <<>>), tr, verb)

\* objects with members
ObjectInputs ==
  \E members \in MemberLists(MaxMembers), init_args \in InitArgLists,
     tr \in {None, AppTrace}, verb \in BOOLEAN :
    Chosen(Component("object", 0, members, NoArgs, FALSE, NoDocstring, init_args),
           tr, verb)

\* dicts, lists and tuples of every length
SequenceInputs ==
  \E nature \in {"dict", "list", "tuple"}, length \in 0..MaxSeqLen,
     members \in {<<>>, <<OneCommand>>}, tr \in {None, AppTrace}, verb \in BOOLEAN :
    Chosen(Component(nature, length, members, NoArgs, FALSE, NoDocstring, <<>>), tr, verb)

(***************************************************************************)
(* The state machine: the inputs are chosen, then the help screen and the  *)
(* usage text are rendered for them, in any order and any number of times. *)
(***************************************************************************)
Init ==
  /\ \/ SignatureInputs
     \/ DocumentedInputs
     \/ DescribedInputs
     \/ ObjectInputs
     \/ SequenceInputs
  /\ helpOut = None
  /\ usageOut = None

CallHelpText ==
  /\ helpOut' = Some(HelpText(component, trace, verbose))
  /\ UNCHANGED <<component, trace, verbose, usageOut>>

CallUsageText ==
  /\ usageOut' = Some(UsageText(component, trace, verbose))
  /\ UNCHANGED <<component, trace, verbose, helpOut>>

Next == CallHelpText \/ CallUsageText

Spec == Init /\ [][Next]_vars

(***************************************************************************)
(* What the claims speak of, read off the state.                           *)
(***************************************************************************)
HelpDone == ~IsNone(helpOut)
UsageDone == ~IsNone(usageOut)
Callable == component.nature \in {"routine", "class"}
HelpSections == Get(helpOut).sections
HelpTitles == [i \in 1..Len(HelpSections) |-> HelpSections[i].title]
HasTitle(title) == \E i \in 1..Len(HelpTitles) : HelpTitles[i] = title
BodyOf(title) == HelpSections[CHOOSE i \in 1..Len(HelpTitles) : HelpTitles[i] = title].body

\* the docstring has a summary or a description that is not empty
HasText(o) == o # None /\ o[1] # <<>>
Documented ==
  HasText(component.docstring_info.summary) \/ HasText(component.docstring_info.description)

\* the members enumerated for the verbose flag, and whether one is of a kind
Enumerated == SelectSeq(component.members, LAMBDA m : verbose \/ ~m.private)
SomeMemberIs(kind) == \E i \in 1..Len(Enumerated) : kind \in Enumerated[i].kinds
IsNonEmptySequence == component.nature \in {"list", "tuple"} /\ component.length >= 1

\* the parameters of the signature: the required positionals and the flags
NumRequired == Len(component.spec.args) - Len(component.spec.defaults)
NumFlags == Len(component.spec.defaults) + Len(component.spec.kwonlyargs)
Required(i) == component.spec.args[i]
Flag(j) ==
  IF j <= Len(component.spec.defaults) THEN component.spec.args[NumRequired + j]
  ELSE component.spec.kwonlyargs[j - Len(component.spec.defaults)]
AcceptsPositional == component.metadata.accepts_positional_args

\* a text without its emphasis
Plain(text) == SelectSeq(text, LAMBDA ch : ch \notin {ESC_BOLD, ESC_UNDERLINE, ESC_RESET})

\* the lines of a text
Lines(text) == Split(text, NL)

\* text begins with prefix
StartsWith(text, prefix) ==
  Len(text) >= Len(prefix) /\ SubSeq(text, 1, Len(prefix)) = prefix

(***************************************************************************)
(* C1.  The titles of the help screen depend on the component's nature.    *)
(* They begin with NAME, SYNOPSIS and, when the docstring has a summary or *)
(* a description, DESCRIPTION.  For a routine or a class only ARGUMENTS or *)
(* POSITIONAL ARGUMENTS, FLAGS and NOTES follow, and none of GROUPS,       *)
(* COMMANDS, VALUES, INDEXES, whatever members it has.  For any other      *)
(* component exactly GROUPS, COMMANDS, VALUES, INDEXES follow, in this     *)
(* order, each present exactly when a member of that kind is enumerated /  *)
(* the component is a non-empty list or tuple, and none of ARGUMENTS,      *)
(* POSITIONAL ARGUMENTS, FLAGS, NOTES.                                     *)
(***************************************************************************)
C1_Head == <<T_NAME, T_SYNOPSIS>> \o (IF Documented THEN <<T_DESCRIPTION>> ELSE <<>>)
C1_Rest == SubSeq(HelpTitles, Len(C1_Head) + 1, Len(HelpTitles))
C1_ObjectTitles ==
  (IF SomeMemberIs("group") THEN <<T_GROUPS>> ELSE <<>>)
  \o (IF SomeMemberIs("command") THEN <<T_COMMANDS>> ELSE <<>>)
  \o (IF SomeMemberIs("value") THEN <<T_VALUES>> ELSE <<>>)
  \o (IF IsNonEmptySequence THEN <<T_INDEXES>> ELSE <<>>)
C1_TitlesByNature ==
  HelpDone =>
    /\ StartsWith(HelpTitles, C1_Head)
    /\ IF Callable
       THEN \A i \in 1..Len(C1_Rest) :
              C1_Rest[i] \in {T_ARGUMENTS, T_POSITIONAL_ARGUMENTS, T_FLAGS, T_NOTES}
       ELSE C1_Rest = C1_ObjectTitles

\* a class with a member it could list, and arguments, flags and notes sections
C1_Witness ==
  /\ HelpDone
  /\ component.nature = "class"
  /\ SomeMemberIs("command")
  /\ HasTitle(T_POSITIONAL_ARGUMENTS) /\ HasTitle(T_FLAGS) /\ HasTitle(T_NOTES)

(***************************************************************************)
(* C2.  As claimed: no section of the help screen has an empty body.       *)
(***************************************************************************)
C2_NoEmptyBody ==
  HelpDone => \A i \in 1..Len(HelpSections) : HelpSections[i].body # <<>>

(***************************************************************************)
(* C2, amended.  DESCRIPTION is emitted only when the docstring has a      *)
(* summary or a description; every section but NAME has a body that is not *)
(* empty; NAME is always emitted, and its body is empty exactly when the   *)
(* current command is empty (the trace is absent or has no path) and the   *)
(* docstring has no summary.                                               *)
(***************************************************************************)
C2_EmptyCommand == trace = None \/ trace[1].elements = <<>>
C2_OnlyNameMayBeEmpty ==
  HelpDone =>
    /\ HasTitle(T_NAME)
    /\ HasTitle(T_DESCRIPTION) => Documented
    /\ \A i \in 1..Len(HelpSections) :
         IF HelpSections[i].title = T_NAME
         THEN HelpSections[i].body = <<>>
                <=> (C2_EmptyCommand /\ ~HasText(component.docstring_info.summary))
         ELSE HelpSections[i].body # <<>>

\* no docstring at all and an absent trace: NAME's body is empty, DESCRIPTION is
\* left out and SYNOPSIS holds the separating space alone
C2_Witness ==
  /\ HelpDone
  /\ trace = None
  /\ ~Documented
  /\ BodyOf(T_NAME) = <<>>
  /\ BodyOf(T_SYNOPSIS) = <<SP>>
  /\ ~HasTitle(T_DESCRIPTION)

(***************************************************************************)
(* C3.  The signature split.  Wherever it is computed (for the synopsis,   *)
(* for the ARGUMENTS and FLAGS sections, for the usage line), the required *)
(* positionals are the first len(args) - d entries of args, a count that   *)
(* is never negative, and the flags are the last d entries of args in      *)
(* their order followed by kwonly in its order; together they hold every   *)
(* parameter exactly once.                                                 *)
(***************************************************************************)
C3_SplitOf(split) ==
  LET args == component.spec.args
      d == Len(component.spec.defaults)
      kwonly == component.spec.kwonlyargs
      required == split.args_with_no_defaults
      flags == split.flags
  IN /\ Len(args) - d >= 0
     /\ Len(required) = Len(args) - d
     /\ \A i \in 1..Len(required) : required[i] = args[i]
     /\ Len(flags) = d + Len(kwonly)
     /\ \A j \in 1..d : flags[j] = args[Len(args) - d + j]
     /\ \A k \in 1..Len(kwonly) : flags[d + k] = kwonly[k]
     /\ \A p \in {args[i] : i \in 1..Len(args)} \cup {kwonly[k] : k \in 1..Len(kwonly)} :
          Cardinality({i \in 1..Len(required) : required[i] = p})
            + Cardinality({j \in 1..Len(flags) : flags[j] = p}) = 1
C3_Computed(o) == o # None => C3_SplitOf(o[1])
C3_SignatureSplit ==
  /\ HelpDone =>
       /\ Callable <=> Get(helpOut).synopsis_split # None
       /\ Callable <=> Get(helpOut).sections_split # None
       /\ C3_Computed(Get(helpOut).synopsis_split)
       /\ C3_Computed(Get(helpOut).sections_split)
  /\ UsageDone =>
       /\ Callable <=> Get(usageOut).usage_split # None
       /\ C3_Computed(Get(usageOut).usage_split)

\* a required positional, a default-bearing positional and a keyword-only
\* parameter, split for the help screen and for the usage text
C3_Witness ==
  /\ HelpDone /\ UsageDone /\ Callable
  /\ NumRequired = 1
  /\ Len(component.spec.defaults) = 1
  /\ Len(component.spec.kwonlyargs) = 1
  /\ Get(usageOut).usage_split[1].flags
       = <<component.spec.args[2], component.spec.kwonlyargs[1]>>

(***************************************************************************)
(* C4.  The token string of the help SYNOPSIS of a routine or class is the *)
(* space-join of one token per required positional, in order: the         *)
(* underlined upper-cased name when positional arguments are accepted,     *)
(* else --name= followed by the underlined upper-cased name; then one      *)
(* token per flag, in flags order, that reads [--name=NAME].  Without      *)
(* required positionals and flags the token string is empty.               *)
(***************************************************************************)
C4_Command == IF trace = None THEN <<>> ELSE GetCommand(trace[1], TRUE)
C4_TokenString ==
  SubSeq(BodyOf(T_SYNOPSIS), Len(C4_Command) + 2, Len(BodyOf(T_SYNOPSIS)))
C4_Tokens == IF C4_TokenString = <<>> THEN <<>> ELSE Split(C4_TokenString, SP)
C4_Emphasized(name) == <<ESC_UNDERLINE>> \o Upper(name) \o <<ESC_RESET>>
C4_SynopsisTokens ==
  (HelpDone /\ Callable) =>
    /\ StartsWith(BodyOf(T_SYNOPSIS), C4_Command \o <<SP>>)
    /\ Len(C4_Tokens) = NumRequired + NumFlags
    /\ \A i \in 1..NumRequired :
         C4_Tokens[i] = IF AcceptsPositional THEN C4_Emphasized(Required(i))
                        ELSE <<"-", "-">> \o Required(i) \o <<"=">>
                             \o C4_Emphasized(Required(i))
    /\ \A j \in 1..NumFlags :
         Plain(C4_Tokens[NumRequired + j])
           = <<"[", "-", "-">> \o Flag(j) \o <<"=">> \o Upper(Flag(j)) \o <<"]">>
    /\ (NumRequired + NumFlags = 0) => C4_TokenString = <<>>

\* positional arguments are not accepted: two required positionals in flag
\* syntax, then a flag
C4_Witness ==
  /\ HelpDone /\ Callable
  /\ ~AcceptsPositional
  /\ NumRequired = 2 /\ NumFlags = 1
  /\ Plain(C4_TokenString)
       = <<"-", "-", "a", "b", "=", "A", "B", " ",
           "-", "-", "c", "_", "d", "=", "C", "_", "D", " ",
           "[", "-", "-", "e", "1", "=", "E", "1", "]">>

(***************************************************************************)
(* C5.  The index descriptor _GetActionsGroupedByKind returns is None      *)
(* unless the component is a non-empty list or tuple; for a length n with  *)
(* 1 <= n < 10 it is "0, 1, ..., n-1", for n >= 10 it is "0..{n-1}".       *)
(***************************************************************************)
C5_DigitValue(ch) == CHOOSE v \in 0..9 : Digits[v + 1] = ch
C5_IsDigit(ch) == \E v \in 0..9 : Digits[v + 1] = ch
RECURSIVE C5_Value(_)
\* the number a non-empty text of digits writes
C5_Value(text) ==
  IF Len(text) = 1 THEN C5_DigitValue(text[1])
  ELSE 10 * C5_Value(SubSeq(text, 1, Len(text) - 1)) + C5_DigitValue(text[Len(text)])
\* text writes n in decimal, with no leading zero
C5_Writes(text, n) ==
  /\ Len(text) >= 1
  /\ \A i \in 1..Len(text) : C5_IsDigit(text[i])
  /\ Len(text) > 1 => text[1] # "0"
  /\ C5_Value(text) = n
C5_Literal(text, n) ==
  LET pieces == Split(text, ",")
  IN /\ Len(pieces) = n
     /\ C5_Writes(pieces[1], 0)
     /\ \A i \in 2..n : /\ Len(pieces[i]) >= 2
                        /\ pieces[i][1] = SP
                        /\ C5_Writes(Tail(pieces[i]), i - 1)
C5_Compressed(text, n) ==
  /\ StartsWith(text, <<"0", ".", ".">>)
  /\ C5_Writes(SubSeq(text, 4, Len(text)), n - 1)
C5_Descriptor(actions) ==
  actions # None =>
    LET indexes == actions[1].indexes
        n == component.length
    IN /\ ~(component.nature \in {"list", "tuple"} /\ n >= 1) => indexes = None
       /\ (component.nature \in {"list", "tuple"} /\ n >= 1) =>
            /\ indexes # None
            /\ IF n < 10 THEN C5_Literal(indexes[1], n) ELSE C5_Compressed(indexes[1], n)
            /\ n = 7 => indexes[1] = <<"0", ",", " ", "1", ",", " ", "2", ",", " ", "3",
                                       ",", " ", "4", ",", " ", "5", ",", " ", "6">>
            /\ n = 9 => indexes[1] = <<"0", ",", " ", "1", ",", " ", "2", ",", " ", "3",
                                       ",", " ", "4", ",", " ", "5", ",", " ", "6",
                                       ",", " ", "7", ",", " ", "8">>
            /\ n = 10 => indexes[1] = <<"0", ".", ".", "9">>
            /\ n = 12 => indexes[1] = <<"0", ".", ".", "1", "1">>
C5_IndexDescriptor ==
  /\ HelpDone => C5_Descriptor(Get(helpOut).actions)
  /\ UsageDone => C5_Descriptor(Get(usageOut).actions)

\* a tuple of twelve elements, rendered both ways: the compressed form
C5_Witness ==
  /\ HelpDone /\ UsageDone
  /\ component.nature = "tuple" /\ component.length = 12
  /\ Get(usageOut).actions[1].indexes = Some(<<"0", ".", ".", "1", "1">>)
  /\ HasTitle(T_INDEXES)

(***************************************************************************)
(* C6.  Classification is non-exclusive and keeps the order: an enumerated *)
(* member is in groups iff it satisfies the Group predicate, in commands   *)
(* iff the Command predicate, in values iff the Value predicate, each      *)
(* independently of the other two, and each sequence lists its members in  *)
(* enumeration order.  Without members the three sequences are empty.      *)
(***************************************************************************)
C6_Classified(actions) ==
  actions # None =>
    /\ actions[1].groups = SelectSeq(Enumerated, LAMBDA m : "group" \in m.kinds)
    /\ actions[1].commands = SelectSeq(Enumerated, LAMBDA m : "command" \in m.kinds)
    /\ actions[1].values = SelectSeq(Enumerated, LAMBDA m : "value" \in m.kinds)
    /\ Enumerated = <<>> =>
         actions[1].groups = <<>> /\ actions[1].commands = <<>> /\ actions[1].values = <<>>
C6_Classification ==
  /\ HelpDone => C6_Classified(Get(helpOut).actions)
  /\ UsageDone => C6_Classified(Get(usageOut).actions)

\* two enumerated members, the first a group, a command and a value at once,
\* the second a command: the first is in all three sequences, and before the
\* second in commands
C6_Witness ==
  /\ HelpDone
  /\ Len(Enumerated) = 2
  /\ Enumerated[1].kinds = {"group", "command", "value"}
  /\ Enumerated[2].kinds = {"command"}
  /\ Get(helpOut).actions[1].groups = <<Enumerated[1]>>
  /\ Get(helpOut).actions[1].commands = Enumerated
  /\ Get(helpOut).actions[1].values = <<Enumerated[1]>>

(***************************************************************************)
(* C7.  For a routine or class the help screen has an arguments section    *)
(* iff there is a required positional, titled POSITIONAL ARGUMENTS when    *)
(* positional arguments are accepted and ARGUMENTS otherwise, with one     *)
(* item per required positional; a FLAGS section iff there is a flag, with *)
(* one item per flag in flags order; a NOTES section iff positional        *)
(* arguments are accepted and there is an arguments item; and NOTES is the *)
(* last section.                                                           *)
(***************************************************************************)
\* the lines of a section's body that begin an item: those that are not indented
C7_ItemLines(body) == SelectSeq(Lines(body), LAMBDA line : line = <<>> \/ line[1] # SP)
C7_Count(title) == Cardinality({i \in 1..Len(HelpTitles) : HelpTitles[i] = title})
C7_ArgumentsTitle == IF AcceptsPositional THEN T_POSITIONAL_ARGUMENTS ELSE T_ARGUMENTS
C7_OtherTitle == IF AcceptsPositional THEN T_ARGUMENTS ELSE T_POSITIONAL_ARGUMENTS
C7_ArgsAndFlagsSections ==
  (HelpDone /\ Callable) =>
    /\ C7_Count(C7_ArgumentsTitle) = (IF NumRequired >= 1 THEN 1 ELSE 0)
    /\ C7_Count(C7_OtherTitle) = 0
    /\ NumRequired >= 1 =>
         LET items == C7_ItemLines(BodyOf(C7_ArgumentsTitle))
         IN /\ Len(items) = NumRequired
            /\ \A i \in 1..NumRequired : Plain(items[i]) = Upper(Required(i))
    /\ C7_Count(T_FLAGS) = (IF NumFlags >= 1 THEN 1 ELSE 0)
    /\ NumFlags >= 1 =>
         LET items == C7_ItemLines(BodyOf(T_FLAGS))
         IN /\ Len(items) = NumFlags
            /\ \A j \in 1..NumFlags : Plain(items[j]) = <<"-", "-">> \o Flag(j)
    /\ C7_Count(T_NOTES) = (IF AcceptsPositional /\ NumRequired >= 1 THEN 1 ELSE 0)
    /\ HasTitle(T_NOTES) => HelpTitles[Len(HelpTitles)] = T_NOTES

\* positional arguments are accepted, with a documented required positional
\* and a flag: POSITIONAL ARGUMENTS, FLAGS and, last, NOTES
C7_Witness ==
  /\ HelpDone /\ Callable /\ AcceptsPositional
  /\ NumRequired = 1 /\ NumFlags = 1
  /\ Len(Lines(BodyOf(T_POSITIONAL_ARGUMENTS))) = 2
  /\ HelpTitles = <<T_NAME, T_SYNOPSIS, T_POSITIONAL_ARGUMENTS, T_FLAGS, T_NOTES>>

(***************************************************************************)
(* C8.  The item of a required positional p carries the description of the *)
(* last docstring entry named p, the item of a flag f the description of   *)
(* the first docstring entry named f; an item whose description is empty   *)
(* or missing is the bare name; entries that name no parameter appear in   *)
(* no item.                                                                *)
(***************************************************************************)
C8_Entries == component.docstring_info.args
C8_Named(name) == {i \in 1..Len(C8_Entries) : C8_Entries[i].name = name}
C8_Last(name) == CHOOSE i \in C8_Named(name) : \A k \in C8_Named(name) : k <= i
C8_First(name) == CHOOSE i \in C8_Named(name) : \A k \in C8_Named(name) : i <= k
C8_ArgDescription(p) ==
  IF C8_Named(p) = {} THEN <<>> ELSE C8_Entries[C8_Last(p)].description
C8_FlagDescription(f) ==
  IF C8_Named(f) = {} THEN <<>> ELSE C8_Entries[C8_First(f)].description
\* an item: the name alone, or the name and its one-line description below it
C8_Item(name, description, indent) ==
  IF description = <<>> THEN name
  ELSE name \o <<NL>> \o [k \in 1..indent |-> SP] \o description
C8_ArgItem(p) ==
  C8_Item(<<ESC_BOLD, ESC_UNDERLINE>> \o Upper(p) \o <<ESC_RESET, ESC_RESET>>,
          C8_ArgDescription(p), 4)
C8_FlagItem(f) ==
  C8_Item(<<"-", "-", ESC_UNDERLINE>> \o f \o <<ESC_RESET>>, C8_FlagDescription(f), 2)
C8_ItemDescriptions ==
  (HelpDone /\ Callable) =>
    /\ NumRequired >= 1 =>
         BodyOf(C7_ArgumentsTitle)
           = Join([i \in 1..NumRequired |-> C8_ArgItem(Required(i))], <<NL>>)
    /\ NumFlags >= 1 =>
         BodyOf(T_FLAGS) = Join([j \in 1..NumFlags |-> C8_FlagItem(Flag(j))], <<NL>>)

\* two entries name the required positional: its item carries the second
\* description
C8_Witness ==
  /\ HelpDone /\ Callable
  /\ NumRequired = 1 /\ Required(1) = ParamNames[1]
  /\ C8_Entries = <<[name |-> ParamNames[1], description |-> <<"x">>],
                    [name |-> ParamNames[1], description |-> <<"y", "y">>]>>
  /\ Lines(BodyOf(C7_ArgumentsTitle))[2] = <<SP, SP, SP, SP, "y", "y">>

(***************************************************************************)
(* C9.  As claimed: the Usage line of a routine or class has one token per *)
(* required positional (the upper-cased name when positional arguments are *)
(* accepted, else --arg=ARG), then one token [--flag=FLAG] per flag, in    *)
(* flags order; an "Available flags:" line is there exactly when there is  *)
(* a flag.                                                                 *)
(***************************************************************************)
UsageLines == Lines(Get(usageOut).text)
C9_Command == IF trace = None THEN <<>> ELSE GetCommand(trace[1], TRUE)
C9_Required ==
  [i \in 1..NumRequired |->
     IF AcceptsPositional THEN Upper(Required(i))
     ELSE <<"-", "-">> \o Required(i) \o <<"=">> \o Upper(Required(i))]
C9_Bracketed ==
  [j \in 1..NumFlags |->
     <<"[", "-", "-">> \o Flag(j) \o <<"=">> \o Upper(Flag(j)) \o <<"]">>]
C9_FlagsLines ==
  {k \in 1..Len(UsageLines) : StartsWith(UsageLines[k], AvailableFlags)}
C9_TokenPerFlag ==
  (UsageDone /\ Callable) =>
    /\ UsageLines[1]
         = UsagePrefix \o C9_Command \o <<SP>> \o Join(C9_Required \o C9_Bracketed, <<SP>>)
    /\ C9_FlagsLines # {} <=> NumFlags >= 1

(***************************************************************************)
(* C9, amended.  The Usage line of a routine or class has one token per    *)
(* required positional (the upper-cased name when positional arguments are *)
(* accepted, else --arg=ARG), then the single token <flags> when there is  *)
(* a flag; the flags themselves are listed, in flags order, on one         *)
(* "Available flags: --a | --b" line, which is there exactly when there is *)
(* a flag; the verbose argument has no effect on the text.                 *)
(***************************************************************************)
C9_FlagsTokenOnly ==
  (UsageDone /\ Callable) =>
    /\ UsageLines[1]
         = UsagePrefix \o C9_Command \o <<SP>>
           \o Join(C9_Required
                   \o (IF NumFlags >= 1 THEN << <<"<", "f", "l", "a", "g", "s", ">">> >>
                       ELSE <<>>), <<SP>>)
    /\ C9_FlagsLines = (IF NumFlags >= 1 THEN {3} ELSE {})
    /\ NumFlags >= 1 =>
         UsageLines[3]
           = AvailableFlags
             \o Join([j \in 1..NumFlags |-> <<"-", "-">> \o Flag(j)], <<" ", "|", " ">>)
    /\ Len(UsageLines) = (IF NumFlags >= 1 THEN 6 ELSE 4)
    /\ Get(usageOut).text = UsageTextForFunction(component, trace, ~verbose).text

\* a required positional and two flags: one <flags> token, both flags on the
\* "Available flags:" line
C9_Witness ==
  /\ UsageDone /\ Callable
  /\ NumRequired = 1 /\ NumFlags = 2
  /\ ~AcceptsPositional
  /\ C9_FlagsLines = {3}
  /\ Len(Split(UsageLines[3], "|")) = 2

(***************************************************************************)
(* C10.  For a component that is no routine and no class, the usage text   *)
(* lists after the command exactly the kinds among group, command, value,  *)
(* index, in this order, lower-case, joined by "|" inside one pair of      *)
(* angle brackets, of which a member is enumerated / for which the index   *)
(* descriptor exists, and has one "available groups:", "available          *)
(* commands:", "available values:", "available indexes:" block per listed  *)
(* kind, in the same order; without any kind it lists nothing and has no   *)
(* such block; the lines of a block after its first are indented to the    *)
(* items column, and no line is longer than the line width.  The help      *)
(* screen's SYNOPSIS lists the same kinds, in upper case.                  *)
(***************************************************************************)
C10_Kinds ==
  (IF SomeMemberIs("group") THEN << <<"g", "r", "o", "u", "p">> >> ELSE <<>>)
  \o (IF SomeMemberIs("command") THEN << <<"c", "o", "m", "m", "a", "n", "d">> >> ELSE <<>>)
  \o (IF SomeMemberIs("value") THEN << <<"v", "a", "l", "u", "e">> >> ELSE <<>>)
  \o (IF IsNonEmptySequence THEN << <<"i", "n", "d", "e", "x">> >> ELSE <<>>)
\* the header of a kind's block: "available " and the kind's plural
C10_Header(kind) ==
  <<SP, SP, "a", "v", "a", "i", "l", "a", "b", "l", "e", SP>> \o kind
  \o (IF kind[Len(kind)] = "x" THEN <<"e", "s", ":">> ELSE <<"s", ":">>)
\* what follows the command on the Usage line, and the kinds read from it
C10_Listed ==
  SubSeq(UsageLines[1], Len(UsagePrefix) + Len(C9_Command) + 1, Len(UsageLines[1]))
C10_ListedKinds ==
  IF C10_Listed = <<>> THEN <<>>
  ELSE Split(SubSeq(C10_Listed, 3, Len(C10_Listed) - 1), "|")
\* the lines that begin a block
C10_Blocks ==
  SelectSeq(UsageLines,
            LAMBDA line : StartsWith(line, <<SP, SP, "a", "v", "a", "i", "l", "a", "b",
                                               "l", "e", SP>>))
C10_UsageKinds ==
  (UsageDone /\ ~Callable) =>
    /\ StartsWith(UsageLines[1], UsagePrefix \o C9_Command)
    /\ C10_Listed = (IF C10_Kinds = <<>> THEN <<>>
                     ELSE <<SP, "<">> \o Join(C10_Kinds, <<"|">>) \o <<">">>)
    /\ C10_ListedKinds = C10_Kinds
    /\ Len(C10_Blocks) = Len(C10_Kinds)
    /\ \A k \in 1..Len(C10_Kinds) : StartsWith(C10_Blocks[k], C10_Header(C10_Kinds[k]))
    /\ \A k \in 2..(Len(UsageLines) - 3) :
         \/ StartsWith(UsageLines[k], <<SP, SP, "a", "v", "a", "i", "l", "a", "b", "l", "e">>)
         \/ StartsWith(UsageLines[k], [i \in 1..25 |-> SP])
    /\ \A k \in 1..Len(UsageLines) : Len(UsageLines[k]) <= 80
    /\ C10_Kinds = <<>> => Len(UsageLines) = 4
    /\ HelpDone =>
         Plain(BodyOf(T_SYNOPSIS))
           = C9_Command \o <<SP>>
             \o Join([k \in 1..Len(C10_ListedKinds) |-> Upper(C10_ListedKinds[k])],
                     <<" ", "|", " ">>)

\* a list with a command among its members, rendered both ways: command and
\* index are listed, each with its block
C10_Witness ==
  /\ HelpDone /\ UsageDone
  /\ component.nature = "list"
  /\ C10_ListedKinds = << <<"c", "o", "m", "m", "a", "n", "d">>, <<"i", "n", "d", "e", "x">> >>
  /\ Len(C10_Blocks) = 2
  /\ StartsWith(C10_Blocks[2], <<SP, SP>> \o AvailableIndexes)

\* ---------------------------------------------------------------------------
\* C11: the last line of the usage text is two spaces, the command path of the
\* trace and " --help", with " --" between the path and " --help" exactly when
\* the component is callable and the trace is present and reports that a
\* separating double dash is needed; with an absent trace the path is empty
\* and there is no separator; the usage text of a non-callable component never
\* has the separator, whatever the trace reports.
C11_Hint == UsageLines[Len(UsageLines)]
C11_NeedsSeparator ==
  Callable /\ trace # None /\ trace[1].needs_separating_hyphen_hyphen
C11_Expected(separated) ==
  <<SP, SP>> \o C9_Command
  \o (IF separated THEN <<" ", "-", "-">> ELSE <<>>)
  \o <<" ", "-", "-", "h", "e", "l", "p">>
C11_HelpHint ==
  UsageDone =>
    /\ Len(UsageLines) >= 2
    /\ UsageLines[Len(UsageLines) - 1] = DetailLine
    /\ C11_Hint = C11_Expected(C11_NeedsSeparator)
    /\ (C11_Hint = C11_Expected(TRUE)) <=> C11_NeedsSeparator
    /\ (trace = None => C11_Hint = <<SP, SP, " ", "-", "-", "h", "e", "l", "p">>)
    /\ (~Callable => C11_Hint = C11_Expected(FALSE))

\* a callable component under a trace with a path that needs the separator:
\* the hint is "  app - go -- --help"
C11_Witness ==
  /\ UsageDone
  /\ Callable
  /\ trace # None
  /\ trace[1].needs_separating_hyphen_hyphen
  /\ Len(trace[1].elements) = 2
  /\ C11_Hint = <<" ", " ", "a", "p", "p", " ", "-", " ", "g", "o",
                  " ", "-", "-", " ", "-", "-", "h", "e", "l", "p">>

\* a non-callable component under a trace that reports the separator as needed
C11_ObjectWitness ==
  /\ UsageDone
  /\ ~Callable
  /\ trace # None
  /\ trace[1].needs_separating_hyphen_hyphen
  /\ C11_Hint = <<" ", " ", "a", "p", "p", " ", "-", "-", "h", "e", "l", "p">>

====
